---- MODULE Spec2Model ----
(***************************************************************************)
(* Model of the Session/UI coordinator of src/src/App.jsx: the query       *)
(* pipeline (handleSubmit and the two submit-then-poll loops it awaits),   *)
(* the thread store, the pinned-chart store, the active-thread             *)
(* reconciliation effects and the status auto-revert timer.                *)
(*                                                                         *)
(* Granularity.  JavaScript runs one task at a time; a pipeline run is     *)
(* suspended only at an awaited fetch (request/response) or at the poll    *)
(* delay (sleep).  One action of the model is one task: a user event       *)
(* handler, a timer callback, or the resumption of a run from one          *)
(* suspension point up to the next one, together with the React effects    *)
(* that the state changes of that task trigger.                            *)
(*                                                                         *)
(* Time is counted in ticks of POLL_INTERVAL_MS; TimeoutTicks stands for   *)
(* ASK_TIMEOUT_MS / POLL_INTERVAL_MS = CHART_TIMEOUT_MS / POLL_INTERVAL_MS *)
(* (180 in the program).                                                   *)
(***************************************************************************)
EXTENDS Integers, Sequences, FiniteSets, TLC

\* ------------------------------------------------------------------ bounds
\* Submissions of handleSubmit in the pipeline specification.
MaxRuns == 2
\* Submissions of handleSubmit in the thread-store specification.
MaxStoreRuns == 2
\* Values crypto.randomUUID() hands out (threads and charts).
MaxId == 3
\* The poll deadline in poll intervals (180 in the program).
TimeoutTicks == 1
\* Effect runs of one chart view that start an embed.
MaxEffects == 3

\* --------------------------------------------------------------- constants
\* useState(null): no active thread, no controller, no candidate.
Null == 0

Placeholder == "New thread"

\* Texts the user may have in the query box.  Two of them are blank.
Queries == {"", "  ", " sales "}

\* Texts the user may type into the rename dialog.  One of them is blank.
RenameValues == {"  ", " Q3 "}

\* String.prototype.trim on the texts of Queries and RenameValues.
Trim(q) ==
  CASE q = "  " -> ""
    [] q = " sales " -> "sales"
    [] q = " Q3 " -> "Q3"
    [] OTHER -> q

\* Pipeline status values (useState('idle')).
Statuses == {"idle", "asking", "charting", "done", "error"}

\* Suspension points of a run, and "ended".
AskPcs == {"askPost", "askGet", "askSleep"}
ChartPcs == {"chartPost", "chartGet", "chartSleep"}
PostPcs == {"askPost", "chartPost"}
GetPcs == {"askGet", "chartGet"}
SleepPcs == {"askSleep", "chartSleep"}

VARIABLES
  query,            \* text of the query box
  status,           \* pipeline status
  error,            \* last error message ('' when none)
  threads,          \* thread store (in memory), a sequence of threads
  activeThreadId,   \* id of the active thread, or Null
  pinnedCharts,     \* pinned-chart store (in memory)
  pinCandidate,     \* chart staged for pinning, or NoChart
  deleteCandidate,  \* pinned chart staged for deletion, or NoChart
  deleteThreadId,   \* thread staged for deletion, or Null
  renameThreadId,   \* thread of the open rename dialog, or Null
  renameValue,      \* text of the rename dialog
  controllerRef,    \* run whose AbortController is in controllerRef.current
  statusTimer,      \* TRUE while the 2 s auto-revert timer is pending
  storedThreads,    \* localStorage[THREADS_KEY]
  storedActive,     \* localStorage[ACTIVE_THREAD_KEY], Null when absent
  storedPinned,     \* localStorage[PINNED_KEY]
  storedCharts,     \* localStorage[CHARTS_KEY], the legacy chart history
  storageFull,      \* TRUE while localStorage.setItem throws (quota)
  chartView,        \* a ChartView component: its effect runs and renderers
  runs,             \* the invocations of handleSubmit, by number
  nRuns,            \* number of invocations so far
  nextId,           \* next value crypto.randomUUID() returns
  lastOp            \* the task that ran last: [op, run, note]

vars == <<query, status, error, threads, activeThreadId, pinnedCharts,
          pinCandidate, deleteCandidate, deleteThreadId, controllerRef,
          statusTimer, storedThreads, storedActive, storedPinned, runs,
          nRuns, nextId, lastOp, renameThreadId, renameValue,
          storedCharts, storageFull, chartView>>

\* new Date().toISOString(): the time at which the program stamps a record.
Now == "now"

NoChart ==
  [id |-> Null, threadId |-> Null, query |-> "", title |-> "", sql |-> "",
   createdAt |-> ""]

\* A run that has not started or has returned: nothing of it is left.
NoRun ==
  [pc |-> "none", aborted |-> FALSE, threadId |-> Null, isNewThread |-> FALSE,
   query |-> "", sql |-> "", t |-> 0, slept |-> FALSE]

EndedRun == [NoRun EXCEPT !.pc = "ended"]

RunIds == 1..MaxRuns

\* A run is in flight while it is suspended at an await.
InFlight(r) == runs[r].pc \in AskPcs \cup ChartPcs

\* ----------------------------------------------------------- sequence help
HasThread(list, id) == \E i \in 1..Len(list) : list[i].id = id

\* Array.prototype.findIndex: 0 stands for -1.
FindIndex(list, id) ==
  IF HasThread(list, id)
  THEN CHOOSE i \in 1..Len(list) :
         /\ list[i].id = id
         /\ \A j \in 1..(i - 1) : list[j].id # id
  ELSE 0

ThreadIds(list) == {list[i].id : i \in 1..Len(list)}

AllCharts(list) == UNION {{list[i].charts[k] : k \in 1..Len(list[i].charts)} : i \in 1..Len(list)}

\* ------------------------------------------------- pure functions of App.jsx
\* A || B taken for B.
OrElseSecond(a, b) == b

\* A || B on strings.
OrElse(a, b) == IF a # "" THEN a ELSE b

\* extractTitle(spec, fallback).  A chart spec is modelled by its title
\* field: "" stands for a spec without a usable title.
extractTitle(spec, fallback) == IF spec.title = "" THEN fallback ELSE spec.title

\* The chart_schema documents the chart job may return.
Specs == {[title |-> "Sales by Region"], [title |-> ""]}

\* A chartPayload that leaves the sql out.
ChartPayloadWithoutSql(id, run, spec) ==
  [id |-> id, threadId |-> run.threadId, query |-> run.query,
   title |-> extractTitle(spec, run.query), sql |-> "", createdAt |-> Now]

\* chartPayload of handleSubmit.
ChartPayload(id, run, spec) ==
  [id |-> id, threadId |-> run.threadId, query |-> run.query,
   title |-> extractTitle(spec, run.query), sql |-> run.sql, createdAt |-> Now]

\* An updater that puts the new chart in front of the thread's charts.
AppendChartAtFront(prev, threadId, q, chart) ==
  LET threadIndex == FindIndex(prev, threadId) IN
  IF threadIndex = 0
  THEN Append(prev, [id |-> threadId, title |-> q, createdAt |-> Now,
                     pinned |-> FALSE,
                     charts |-> <<chart>>])
  ELSE [prev EXCEPT ![threadIndex] =
          [prev[threadIndex] EXCEPT
             !.title = IF prev[threadIndex].title = Placeholder
                          /\ Len(prev[threadIndex].charts) = 0
                       THEN q ELSE prev[threadIndex].title,
             !.charts = <<chart>> \o prev[threadIndex].charts]]

\* An updater that gives the thread the query text as title on every append.
AppendChartAlwaysRetitles(prev, threadId, q, chart) ==
  LET threadIndex == FindIndex(prev, threadId) IN
  IF threadIndex = 0
  THEN Append(prev, [id |-> threadId, title |-> q, createdAt |-> Now,
                     pinned |-> FALSE,
                     charts |-> <<chart>>])
  ELSE [prev EXCEPT ![threadIndex] =
          [prev[threadIndex] EXCEPT
             !.title = q,
             !.charts = Append(prev[threadIndex].charts, chart)]]
\* An append over a collection that holds the target thread alone, as if
\* nothing else had been in the store.
AppendChartToTargetAlone(prev, threadId, q, chart) ==
  LET alone == SelectSeq(prev, LAMBDA th : th.id = threadId) IN
  IF Len(alone) = 0
  THEN <<[id |-> threadId, title |-> q, createdAt |-> Now, pinned |-> FALSE,
          charts |-> <<chart>>]>>
  ELSE <<[alone[1] EXCEPT
            !.title = IF alone[1].title = Placeholder /\ Len(alone[1].charts) = 0
                      THEN q ELSE alone[1].title,
            !.charts = Append(alone[1].charts, chart)]>>

\* The updater handleSubmit hands to persistThreads.
AppendChart(prev, threadId, q, chart) ==
  LET threadIndex == FindIndex(prev, threadId) IN
  IF threadIndex = 0
  THEN Append(prev, [id |-> threadId, title |-> q, createdAt |-> Now,
                     pinned |-> FALSE,
                     charts |-> <<chart>>])
  ELSE [prev EXCEPT ![threadIndex] =
          [prev[threadIndex] EXCEPT
             !.title = IF prev[threadIndex].title = Placeholder
                          /\ Len(prev[threadIndex].charts) = 0
                       THEN q ELSE prev[threadIndex].title,
             !.charts = Append(prev[threadIndex].charts, chart)]]

\* The updater of startNewThread.
PrependEmpty(prev, newId) ==
  <<[id |-> newId, title |-> Placeholder, createdAt |-> Now, pinned |-> FALSE,
     charts |-> <<>>]>> \o prev

\* The updater of confirmDeleteThread.
RemoveThread(prev, id) == SelectSeq(prev, LAMBDA th : th.id # id)

\* The updater of confirmRenameThread.
RenameThread(prev, id, nextTitle) ==
  [i \in 1..Len(prev) |->
     IF prev[i].id = id THEN [prev[i] EXCEPT !.title = nextTitle] ELSE prev[i]]

\* prev.map(...) of pinThreadToTop and unpinThread.
SetPinned(prev, id, flag) ==
  [i \in 1..Len(prev) |->
     IF prev[i].id = id THEN [prev[i] EXCEPT !.pinned = flag] ELSE prev[i]]

\* reorderThreads without the unshift of the prioritized thread.
reorderThreadsNoPriority(list, prioritizeId) ==
  SelectSeq(list, LAMBDA th : th.pinned) \o SelectSeq(list, LAMBDA th : ~th.pinned)

\* reorderThreads(list, prioritizeId): the pinned threads in list order,
\* the prioritized one moved to their front, then the unpinned ones in list
\* order.  FindIndex counts from 1, so "idx > 0" of the code is idx > 1.
reorderThreads(list, prioritizeId) ==
  LET pinned == SelectSeq(list, LAMBDA th : th.pinned)
      unpinned == SelectSeq(list, LAMBDA th : ~th.pinned)
      idx == IF prioritizeId # Null THEN FindIndex(pinned, prioritizeId) ELSE 0
  IN
  (IF idx > 1
   THEN <<pinned[idx]>> \o SubSeq(pinned, 1, idx - 1)
          \o SubSeq(pinned, idx + 1, Len(pinned))
   ELSE pinned) \o unpinned

\* handlePin without the check for an entry with the same id.
PinChartAlways(pinned, chart) == Append(pinned, chart)

\* handlePin: the next pinned collection.
PinChart(pinned, chart) ==
  IF \E i \in 1..Len(pinned) : pinned[i].id = chart.id
  THEN pinned
  ELSE Append(pinned, chart)

\* handleUnpin: the next pinned collection.
UnpinChart(pinned, chartId) == SelectSeq(pinned, LAMBDA c : c.id # chartId)

\* ------------------------------------------------------------ localStorage
\* The text under a key is modelled by what JSON.parse makes of it: a
\* document [kind, items], where kind tells an absent key, a text that is
\* not JSON, a JSON value that is not an array, and an array (with its
\* items).  A stored thread carries its pinned field as the JSON token
\* ("true", "false", or "absent" for a missing field) and its charts field
\* with a mark telling whether it is an array.
AbsentDoc == [kind |-> "absent", items |-> <<>>]
InvalidDoc == [kind |-> "invalid", items |-> <<>>]
ObjectDoc == [kind |-> "object", items |-> <<>>]

\* JSON.stringify of one thread.
JsonThread(th) ==
  [id |-> th.id, title |-> th.title, createdAt |-> th.createdAt,
   pinned |-> IF th.pinned THEN "true" ELSE "false",
   charts |-> [isArray |-> TRUE, items |-> th.charts]]

\* JSON.stringify(next) of persistThreads.
JsonThreads(list) ==
  [kind |-> "array", items |-> [i \in 1..Len(list) |-> JsonThread(list[i])]]

\* JSON.stringify(next) of persistPinnedCharts.
JsonCharts(list) == [kind |-> "array", items |-> list]

\* A normalizeThread that takes every thread for unpinned.
normalizeThreadUnpinned(thread) ==
  [id |-> thread.id, title |-> thread.title, createdAt |-> thread.createdAt,
   pinned |-> FALSE,
   charts |-> IF thread.charts.isArray THEN thread.charts.items ELSE <<>>]

\* normalizeThread on a parsed thread: Boolean(pinned), charts an array.
normalizeThread(thread) ==
  [id |-> thread.id, title |-> thread.title, createdAt |-> thread.createdAt,
   pinned |-> thread.pinned = "true",
   charts |-> IF thread.charts.isArray THEN thread.charts.items ELSE <<>>]

\* The thread branch of the load effect for a stored text: JSON.parse,
\* Array.isArray, map(normalizeThread); [] for anything else.
ParseThreads(doc) ==
  IF doc.kind = "array"
  THEN [i \in 1..Len(doc.items) |-> normalizeThread(doc.items[i])]
  ELSE <<>>

\* The pinned branch of the load effect: JSON.parse, [] when it throws; an
\* absent key leaves the initial [].
ParsePinned(doc) == IF doc.kind = "array" THEN doc.items ELSE <<>>

\* localStorage.setItem inside try/catch: the value under the key after the
\* call.  A failed write leaves the old value.
SetItem(old, new) == IF storageFull THEN old ELSE new

\* localStorage.setItem throws (QuotaExceededError).
SetItemThrows == storageFull

\* The message of the error setItem throws.
QuotaMessage == "The quota has been exceeded."

\* persistActiveThread without the removeItem branch.
PersistActiveThreadNoRemove(threadId, stored) ==
  [active |-> threadId,
   stored |-> IF threadId # Null THEN SetItem(stored, threadId) ELSE stored]

\* persistActiveThread(threadId): the in-memory id, set first, and the
\* stored one (removeItem leaves the key absent); a setItem that throws
\* leaves the stored id as it was.  The call is not wrapped in try/catch:
\* the exception goes to the caller (see PersistActiveThreadThrows).
PersistActiveThread(threadId, stored) ==
  [active |-> threadId,
   stored |-> IF threadId # Null THEN SetItem(stored, threadId) ELSE Null]

\* persistActiveThread(threadId) throws: setItem is called, and it throws.
PersistActiveThreadThrows(threadId) == threadId # Null /\ SetItemThrows

\* The effects without the second one (no fallback to the first thread).
EffectPassNoFallback(list, s) ==
  IF s.active # Null /\ ~HasThread(list, s.active)
  THEN PersistActiveThread(Null, s.stored)
  ELSE s

\* One pass of the two reconciliation effects over one render's values.
\* Their conditions exclude each other, so at most one of them acts.
EffectPass(list, s) ==
  IF s.active # Null /\ ~HasThread(list, s.active)
  THEN PersistActiveThread(Null, s.stored)
  ELSE IF s.active = Null /\ Len(list) > 0
       THEN PersistActiveThread(list[1].id, s.stored)
       ELSE s

\* The effects run after every render until nothing changes: clearing a
\* dangling id renders again, and the second effect then picks the first
\* thread.
Reconcile(list, s) == EffectPass(list, EffectPass(list, s))

\* A status effect that starts the timer but never clears it.
StatusEffectKeepsTimer(old, new, timer) == timer \/ new = "done"

\* The status effect: any change of status clears the pending timer, and
\* arriving at 'done' starts a new one.
StatusEffect(old, new, timer) == IF new = old THEN timer ELSE new = "done"

\* handleSubmit without the abort of the previous controller.
AbortNothing(rs, c) == rs

\* controller.abort() on the run held in controllerRef.current.  Aborting
\* the controller of a run that has returned has no effect on anything.
Abort(rs, c) ==
  IF c # Null /\ rs[c].pc \in AskPcs \cup ChartPcs
  THEN [rs EXCEPT ![c].aborted = TRUE]
  ELSE rs

\* fetch called without the signal.
FetchWithoutSignal(run) == FALSE

\* sleep called without the signal.
SleepWithoutSignal(run) == FALSE

\* fetch(url, {signal}): the pending request (and the reading of its body)
\* rejects with AbortError as soon as the signal is aborted.
FetchRejected(run) == run.aborted

\* sleep(ms, signal): the abort listener clears the timer and rejects with
\* AbortError.
SleepRejected(run) == run.aborted

\* The awaited promise of a suspended run has been rejected with AbortError.
Rejected(run) ==
  \/ run.pc \in PostPcs \cup GetPcs /\ FetchRejected(run)
  \/ run.pc \in SleepPcs /\ SleepRejected(run)

\* ------------------------------------------------------------ initial load
\* A thread as startNewThread writes it.
EmptyThread(id) ==
  [id |-> id, title |-> Placeholder, createdAt |-> Now, pinned |-> FALSE,
   charts |-> <<>>]

\* Thread collections found under THREADS_KEY at start-up.
InitStores == {<<>>, <<EmptyThread(1)>>, <<EmptyThread(1), EmptyThread(2)>>}

\* An id under ACTIVE_THREAD_KEY that no thread has, now or later.
DanglingId == MaxId + 1

\* A load effect that migrates the legacy history without writing it back.
LoadThreadsWithoutWrite(td, cd, id) ==
  IF td.kind # "absent"
  THEN [threads |-> ParseThreads(td), stored |-> td, migrated |-> FALSE]
  ELSE IF cd.kind = "array" /\ Len(cd.items) > 0
       THEN [threads |-> <<[id |-> id,
                            title |-> OrElse(cd.items[1].query, "Thread"),
                            createdAt |-> OrElse(cd.items[1].createdAt, Now),
                            pinned |-> FALSE, charts |-> cd.items]>>,
             stored |-> td, migrated |-> TRUE]
       ELSE [threads |-> <<>>, stored |-> td, migrated |-> FALSE]

\* The thread branch of the load effect: the stored collection if the key
\* is present; otherwise the migration of a legacy chart history that is a
\* non-empty array, written back at once (a write that throws lands in
\* the catch, which sets []); otherwise nothing.
LoadThreads(td, cd, id) ==
  IF td.kind # "absent"
  THEN [threads |-> ParseThreads(td), stored |-> td, migrated |-> FALSE]
  ELSE IF cd.kind = "array" /\ Len(cd.items) > 0
       THEN LET migratedThread ==
                  [id |-> id, title |-> OrElse(cd.items[1].query, "Thread"),
                   createdAt |-> OrElse(cd.items[1].createdAt, Now),
                   pinned |-> FALSE, charts |-> cd.items]
            IN
            IF SetItemThrows
            THEN [threads |-> <<>>, stored |-> td, migrated |-> TRUE]
            ELSE [threads |-> <<migratedThread>>,
                  stored |-> JsonThreads(<<migratedThread>>), migrated |-> TRUE]
       ELSE [threads |-> <<>>, stored |-> td, migrated |-> FALSE]

\* The load effect followed by the reconciliation effects, from the four
\* stored texts: threads as above, setActiveThreadId(storedActive) takes
\* the stored id as it is and the effects then repair it, the pinned
\* charts are parsed.
LoadEffect(td, cd, sa, pd, id) ==
  LET lt == LoadThreads(td, cd, id)
      s == Reconcile(lt.threads, [active |-> sa, stored |-> sa])
  IN
  [threads |-> lt.threads, storedThreads |-> lt.stored,
   activeThreadId |-> s.active, storedActive |-> s.stored,
   pinnedCharts |-> ParsePinned(pd),
   nextId |-> IF lt.migrated THEN id + 1 ELSE id,
   note |-> IF lt.migrated THEN "migrated"
            ELSE IF sa = Null THEN "none"
            ELSE IF HasThread(lt.threads, sa) THEN "valid" ELSE "dangling"]

\* The text under THREADS_KEY for a collection the program wrote; the key
\* is absent until the first write.
StoredDoc(st) == IF st = <<>> THEN AbsentDoc ELSE JsonThreads(st)

\* The values of useState and useRef at mount, before any effect.
UseStateDefaults ==
  /\ query = ""
  /\ status = "idle"
  /\ error = ""
  /\ pinCandidate = NoChart
  /\ deleteCandidate = NoChart
  /\ deleteThreadId = Null
  /\ renameThreadId = Null
  /\ renameValue = ""
  /\ controllerRef = Null
  /\ statusTimer = FALSE
  /\ runs = [r \in RunIds |-> NoRun]
  /\ nRuns = 0
  /\ chartView = [mounted |-> FALSE, spec |-> "", effects |-> <<>>, cleanup |-> Null]

\* The program after its load: storage as an earlier session left it (no
\* legacy history, nothing pinned), the load effect and the reconciliation
\* effects done.
Init ==
  \E st \in InitStores : \E sa \in {Null, DanglingId} \cup ThreadIds(st) :
    /\ storageFull = FALSE
    /\ storedCharts = AbsentDoc
    /\ storedPinned = AbsentDoc
    /\ LET l == LoadEffect(StoredDoc(st), AbsentDoc, sa, AbsentDoc, Len(st) + 1) IN
       /\ threads = l.threads
       /\ storedThreads = l.storedThreads
       /\ activeThreadId = l.activeThreadId
       /\ storedActive = l.storedActive
       /\ pinnedCharts = l.pinnedCharts
       /\ nextId = l.nextId
       /\ lastOp = [op |-> "load", run |-> Null, note |-> l.note]
    /\ UseStateDefaults

\* A chart of the legacy history, as the version of the program that kept
\* one flat history wrote it (no thread id).
LegacyChart(id, q) ==
  [id |-> id, threadId |-> Null, query |-> q, title |-> q, sql |-> "SELECT 1",
   createdAt |-> "2024-05-01"]

\* Legacy histories of one chart and of two.
LegacyOne == JsonCharts(<<LegacyChart(21, "revenue")>>)
LegacyTwo ==
  JsonCharts(<<LegacyChart(21, "revenue"), LegacyChart(22, "sales")>>)

\* A stored thread from before threads had a pinned field, whose charts
\* field is not an array.
OldThread ==
  [id |-> 11, title |-> "old", createdAt |-> "2024-05-01", pinned |-> "absent",
   charts |-> [isArray |-> FALSE, items |-> <<>>]]

\* A stored collection of a pinned thread with a chart and an empty thread.
TwoThreads ==
  JsonThreads(<<[id |-> 11, title |-> "revenue", createdAt |-> "2024-05-01",
                  pinned |-> TRUE,
                  charts |-> <<[LegacyChart(21, "revenue") EXCEPT !.threadId = 11]>>],
                 [id |-> 12, title |-> Placeholder, createdAt |-> "2024-05-01",
                  pinned |-> FALSE, charts |-> <<>>]>>)

\* What the four keys hold when the page is opened: thread collection,
\* legacy history, pinned collection, active id.
BootStores ==
  {<<AbsentDoc, AbsentDoc, AbsentDoc, Null>>,
   <<AbsentDoc, LegacyTwo, AbsentDoc, Null>>,
   <<AbsentDoc, LegacyOne, LegacyOne, DanglingId>>,
   <<AbsentDoc, JsonCharts(<<>>), AbsentDoc, Null>>,
   <<AbsentDoc, InvalidDoc, AbsentDoc, Null>>,
   <<AbsentDoc, ObjectDoc, InvalidDoc, Null>>,
   <<InvalidDoc, LegacyTwo, AbsentDoc, Null>>,
   <<ObjectDoc, LegacyOne, AbsentDoc, 11>>,
   <<JsonThreads(<<>>), LegacyTwo, AbsentDoc, Null>>,
   <<[kind |-> "array", items |-> <<OldThread>>], AbsentDoc, AbsentDoc, 11>>,
   <<TwoThreads, LegacyTwo, LegacyOne, 12>>,
   <<TwoThreads, AbsentDoc, AbsentDoc, DanglingId>>}

\* The page before its first effect has run: storage as it was found,
\* memory at its defaults.
InitBoot ==
  \E b \in BootStores :
    /\ storageFull = FALSE
    /\ storedThreads = b[1]
    /\ storedCharts = b[2]
    /\ storedPinned = b[3]
    /\ storedActive = b[4]
    /\ threads = <<>>
    /\ activeThreadId = Null
    /\ pinnedCharts = <<>>
    /\ nextId = 2
    /\ lastOp = [op |-> "boot", run |-> Null, note |-> ""]
    /\ UseStateDefaults

\* The handlers exist once the load effect has run.
Loaded == lastOp.op # "boot"

\* The page is loaded or reloaded: every in-memory value starts from its
\* default, the runs and timers of the page before are gone, and the load
\* effect and the reconciliation effects run over what storage holds.
Mount ==
  LET l == LoadEffect(storedThreads, storedCharts, storedActive, storedPinned,
                      nextId)
  IN
  /\ l.nextId # nextId => nextId <= MaxId
  /\ threads' = l.threads
  /\ storedThreads' = l.storedThreads
  /\ activeThreadId' = l.activeThreadId
  /\ storedActive' = l.storedActive
  /\ pinnedCharts' = l.pinnedCharts
  /\ nextId' = l.nextId
  /\ query' = ""
  /\ status' = "idle"
  /\ error' = ""
  /\ pinCandidate' = NoChart
  /\ deleteCandidate' = NoChart
  /\ deleteThreadId' = Null
  /\ renameThreadId' = Null
  /\ renameValue' = ""
  /\ controllerRef' = Null
  /\ statusTimer' = FALSE
  /\ runs' = [r \in RunIds |-> IF runs[r].pc = "none" THEN NoRun ELSE EndedRun]
  /\ chartView' = [mounted |-> FALSE, spec |-> "", effects |-> <<>>, cleanup |-> Null]
  /\ lastOp' = [op |-> "load", run |-> Null, note |-> l.note]
  /\ UNCHANGED <<nRuns, storedPinned, storedCharts, storageFull>>

\* ------------------------------------------------------------ frame helpers
\* What a task leaves behind once React has rendered and run the effects:
\* the thread collection, the active id (reconciled), the status (with the
\* auto-revert timer following it).
Commit(list, s, st) ==
  LET rec == Reconcile(list, s) IN
  /\ threads' = list
  /\ activeThreadId' = rec.active
  /\ storedActive' = rec.stored
  /\ status' = st
  /\ statusTimer' = StatusEffect(status, st, statusTimer)

Session == [active |-> activeThreadId, stored |-> storedActive]

renameVars == <<renameThreadId, renameValue>>
envVars == <<storedCharts, storageFull, chartView>>
pinVars == <<pinnedCharts, storedPinned, pinCandidate, deleteCandidate>>
threadVars == <<threads, storedThreads, activeThreadId, storedActive>>
statusVars == <<status, statusTimer>>
runVars == <<runs, nRuns, controllerRef>>

\* ---------------------------------------------------------------- query box
\* onChange of the query input.
SetQuery ==
  \E q \in Queries :
    /\ q # query
    /\ query' = q
    /\ lastOp' = [op |-> "setQuery", run |-> Null, note |-> ""]
    /\ UNCHANGED <<envVars, renameVars, error, deleteThreadId, nextId, pinVars, threadVars,
                   statusVars, runVars>>

\* handleSubmit with a blank query: the early return.
SubmitBlank ==
  /\ Trim(query) = ""
  /\ lastOp.op # "submitBlank"
  /\ lastOp' = [op |-> "submitBlank", run |-> Null, note |-> ""]
  /\ UNCHANGED <<envVars, renameVars, query, error, deleteThreadId, nextId, pinVars, threadVars,
                 statusVars, runVars>>

\* handleSubmit up to its first await: abort the previous controller,
\* install a new one, clear the error, set 'asking', resolve the thread id
\* and issue POST /v1/asks.
HandleSubmit(limit) ==
  /\ Trim(query) # ""
  /\ nRuns < limit
  /\ LET r == nRuns + 1
         isNewThread == activeThreadId = Null
         threadId == IF isNewThread THEN nextId ELSE activeThreadId
     IN
     /\ isNewThread => nextId <= MaxId
     /\ runs' = [Abort(runs, controllerRef) EXCEPT ![r] =
                   [pc |-> "askPost", aborted |-> FALSE, threadId |-> threadId,
                    isNewThread |-> isNewThread, query |-> Trim(query),
                    sql |-> "", t |-> 0, slept |-> FALSE]]
     /\ nextId' = IF isNewThread THEN nextId + 1 ELSE nextId
     /\ controllerRef' = r
     /\ nRuns' = r
     /\ error' = ""
     /\ Commit(threads, Session, "asking")
     /\ lastOp' = [op |-> "submit", run |-> r, note |-> ""]
     /\ UNCHANGED <<envVars, renameVars, query, storedThreads, deleteThreadId, pinVars>>

Submit == HandleSubmit(MaxRuns)

\* ------------------------------------------------------------ pipeline run
\* Messages of the remote service: error.message of a failed job and the
\* body of a non-2xx response; "" stands for an absent or empty one.
ServiceMessages == {"model timeout", ""}

IsAsk(run) == run.pc \in AskPcs

\* A catch that records the message and leaves the status as it is.
FailKeepsStatus(r, msg) ==
  /\ error' = OrElse(msg, "Something went wrong.")
  /\ Commit(threads, Session, status)
  /\ runs' = [runs EXCEPT ![r] = EndedRun]
  /\ UNCHANGED <<envVars, renameVars, query, storedThreads, deleteThreadId, nextId, nRuns,
                 controllerRef, pinVars>>

\* handleSubmit's catch for an error other than AbortError; the run returns.
Fail(r, msg) ==
  /\ error' = OrElse(msg, "Something went wrong.")
  /\ Commit(threads, Session, "error")
  /\ runs' = [runs EXCEPT ![r] = EndedRun]
  /\ UNCHANGED <<envVars, renameVars, query, storedThreads, deleteThreadId, nextId, nRuns,
                 controllerRef, pinVars>>

\* A catch that does not tell AbortError from the other errors.
RunCancelledAsError(r) ==
  /\ InFlight(r)
  /\ Rejected(runs[r])
  /\ Fail(r, "Aborted")
  /\ lastOp' = [op |-> "cancelled", run |-> r, note |-> runs[r].pc]

\* handleSubmit's catch for AbortError: return, and nothing else.
RunCancelled(r) ==
  /\ InFlight(r)
  /\ Rejected(runs[r])
  /\ runs' = [runs EXCEPT ![r] = EndedRun]
  /\ lastOp' = [op |-> "cancelled", run |-> r, note |-> runs[r].pc]
  /\ UNCHANGED <<envVars, renameVars, query, error, deleteThreadId, nextId, nRuns, controllerRef,
                 pinVars, threadVars, statusVars>>

\* postJson answers 2xx with a query_id: startAsk/startChart return, the
\* poll loop takes its deadline and issues its first GET.
PostOk(r) ==
  /\ runs[r].pc \in PostPcs
  /\ ~Rejected(runs[r])
  /\ runs' = [runs EXCEPT ![r].pc = IF IsAsk(runs[r]) THEN "askGet" ELSE "chartGet",
                          ![r].t = 0]
  /\ lastOp' = [op |-> "postOk", run |-> r, note |-> ""]
  /\ UNCHANGED <<envVars, renameVars, query, error, deleteThreadId, nextId, nRuns, controllerRef,
                 pinVars, threadVars, statusVars>>

\* postJson answers 2xx without a query_id.
PostNoId(r) ==
  /\ runs[r].pc \in PostPcs
  /\ ~Rejected(runs[r])
  /\ Fail(r, IF IsAsk(runs[r]) THEN "Ask request did not return a query id."
             ELSE "Chart request did not return a query id.")
  /\ lastOp' = [op |-> "postNoId", run |-> r, note |-> ""]

\* postJson/getJson: a non-2xx answer throws its body text or the generic
\* message (a network failure makes fetch throw its own message, which takes
\* the same path).
RequestFailed(r) ==
  /\ runs[r].pc \in PostPcs \cup GetPcs
  /\ ~Rejected(runs[r])
  /\ \E text \in ServiceMessages :
       /\ Fail(r, OrElse(text, "Request failed (500)"))
       /\ lastOp' = [op |-> "requestFailed", run |-> r, note |-> text]

\* A poll answers failed or stopped.
JobFailed(r) ==
  /\ runs[r].pc \in GetPcs
  /\ ~Rejected(runs[r])
  /\ \E msg \in ServiceMessages :
       /\ Fail(r, OrElse(msg, IF IsAsk(runs[r]) THEN "Ask failed."
                              ELSE "Chart generation failed."))
       /\ lastOp' = [op |-> "jobFailed", run |-> r, note |-> msg]

\* A poll loop without the deadline check.
PollPendingNoDeadline(r) ==
  /\ runs[r].pc \in GetPcs
  /\ ~Rejected(runs[r])
  /\ runs' = [runs EXCEPT ![r].pc = IF IsAsk(runs[r]) THEN "askSleep"
                                    ELSE "chartSleep",
                          ![r].slept = FALSE]
  /\ lastOp' = [op |-> "pollPending", run |-> r, note |-> ""]
  /\ UNCHANGED <<envVars, renameVars, query, error, deleteThreadId, nextId, nRuns,
                 controllerRef, pinVars, threadVars, statusVars>>

\* A poll answers with a status that is not terminal: past the deadline the
\* loop throws, otherwise it sleeps POLL_INTERVAL_MS.
PollPending(r) ==
  /\ runs[r].pc \in GetPcs
  /\ ~Rejected(runs[r])
  /\ IF runs[r].t > TimeoutTicks
     THEN /\ Fail(r, IF IsAsk(runs[r]) THEN "Ask timed out."
                     ELSE "Chart generation timed out.")
          /\ lastOp' = [op |-> "timeout", run |-> r, note |-> ""]
     ELSE /\ runs' = [runs EXCEPT ![r].pc = IF IsAsk(runs[r]) THEN "askSleep"
                                            ELSE "chartSleep",
                                  ![r].slept = FALSE]
          /\ lastOp' = [op |-> "pollPending", run |-> r, note |-> ""]
          /\ UNCHANGED <<envVars, renameVars, query, error, deleteThreadId, nextId, nRuns,
                         controllerRef, pinVars, threadVars, statusVars>>

\* The poll delay runs out and the loop calls getJson again.  fetch with a
\* signal that is already aborted rejects without issuing a request.
SleepDone(r) ==
  /\ runs[r].pc \in SleepPcs
  /\ ~Rejected(runs[r])
  /\ runs[r].slept
  /\ runs' = [runs EXCEPT ![r] =
                IF FetchRejected(runs[r]) THEN EndedRun
                ELSE [runs[r] EXCEPT !.pc = IF IsAsk(runs[r]) THEN "askGet"
                                            ELSE "chartGet",
                                     !.slept = FALSE]]
  /\ lastOp' = [op |-> "sleepDone", run |-> r, note |-> ""]
  /\ UNCHANGED <<envVars, renameVars, query, error, deleteThreadId, nextId, nRuns, controllerRef,
                 pinVars, threadVars, statusVars>>

\* handleSubmit without the check of the sql.
AskFinishedUnchecked(r) ==
  /\ runs[r].pc = "askGet"
  /\ ~Rejected(runs[r])
  /\ \E sql \in {"", "SELECT 1"} :
       /\ runs' = [runs EXCEPT ![r].pc = "chartPost", ![r].sql = sql, ![r].t = 0]
       /\ Commit(threads, Session, "charting")
       /\ lastOp' = [op |-> "askFinished", run |-> r, note |-> ""]
       /\ UNCHANGED <<envVars, renameVars, query, error, storedThreads, deleteThreadId, nextId,
                      nRuns, controllerRef, pinVars>>

\* The ask poll answers finished: without sql the run throws, with sql it
\* sets 'charting' and issues POST /v1/charts.
AskFinished(r) ==
  /\ runs[r].pc = "askGet"
  /\ ~Rejected(runs[r])
  /\ \E sql \in {"", "SELECT 1"} :
       IF sql = ""
       THEN /\ Fail(r, "No SQL was returned for this query.")
            /\ lastOp' = [op |-> "noSql", run |-> r, note |-> ""]
       ELSE /\ runs' = [runs EXCEPT ![r].pc = "chartPost", ![r].sql = sql,
                                    ![r].t = 0]  \* the ask deadline is dead
            /\ Commit(threads, Session, "charting")
            /\ lastOp' = [op |-> "askFinished", run |-> r, note |-> ""]
            /\ UNCHANGED <<envVars, renameVars, query, error, storedThreads, deleteThreadId, nextId,
                           nRuns, controllerRef, pinVars>>

\* The chart poll answers finished without a chart_schema.
ChartMissing(r) ==
  /\ runs[r].pc = "chartGet"
  /\ ~Rejected(runs[r])
  /\ Fail(r, "Chart was not generated.")
  /\ lastOp' = [op |-> "noChart", run |-> r, note |-> ""]

\* The chart poll answers finished with a chart_schema: the artifact is
\* built and appended by persistThreads to the collection as it is now, a
\* synthesized thread is activated, the query box is cleared, 'done'.
\* All of it is inside handleSubmit's try: when persistActiveThread throws,
\* the two setters after it are skipped and the catch reports the exception
\* as the run's error.
ChartFinished(r) ==
  /\ runs[r].pc = "chartGet"
  /\ ~Rejected(runs[r])
  /\ nextId <= MaxId
  /\ \E spec \in Specs :
       LET run == runs[r]
           chart == ChartPayload(nextId, run, spec)
           next == AppendChart(threads, run.threadId, run.query, chart)
           s == IF run.isNewThread
                THEN PersistActiveThread(run.threadId, storedActive)
                ELSE Session
           threw == run.isNewThread /\ PersistActiveThreadThrows(run.threadId)
       IN
       /\ storedThreads' = SetItem(storedThreads, JsonThreads(next))
       /\ Commit(next, s, IF threw THEN "error" ELSE "done")
       /\ query' = IF threw THEN query ELSE ""
       /\ error' = IF threw THEN OrElse(QuotaMessage, "Something went wrong.")
                   ELSE error
  /\ nextId' = nextId + 1
  /\ runs' = [runs EXCEPT ![r] = EndedRun]
  /\ lastOp' = [op |-> "chartFinished", run |-> r,
                note |-> IF runs[r].isNewThread THEN "synthesized" ELSE "active"]
  /\ UNCHANGED <<envVars, renameVars, deleteThreadId, nRuns, controllerRef, pinVars>>

\* POLL_INTERVAL_MS of wall-clock time passes: the clocks of the poll loops
\* advance (they are read only by a loop that is not aborted) and a pending
\* delay becomes due.
Tick ==
  LET ticking(r) == runs[r].pc \in GetPcs \cup SleepPcs /\ ~runs[r].aborted
      after(run) == [run EXCEPT !.t = IF @ > TimeoutTicks THEN @ ELSE @ + 1,
                                !.slept = run.pc \in SleepPcs]
  IN
  /\ \E r \in RunIds : ticking(r) /\ after(runs[r]) # runs[r]
  /\ runs' = [r \in RunIds |-> IF ticking(r) THEN after(runs[r]) ELSE runs[r]]
  /\ lastOp' = [op |-> "tick", run |-> Null, note |-> ""]
  /\ UNCHANGED <<envVars, renameVars, query, error, deleteThreadId, nextId, nRuns, controllerRef,
                 pinVars, threadVars, statusVars>>

\* The 2 s timer of the status effect fires: setStatus('idle').
StatusTimerFires ==
  /\ statusTimer
  /\ Commit(threads, Session, "idle")
  /\ lastOp' = [op |-> "statusTimer", run |-> Null, note |-> ""]
  /\ UNCHANGED <<envVars, renameVars, query, error, storedThreads, deleteThreadId, nextId, pinVars,
                 runVars>>

\* handleChartError: a chart view reports a rendering error.
HandleChartError ==
  /\ AllCharts(threads) # {} \/ Len(pinnedCharts) > 0
  /\ \E msg \in {"Invalid chart specification.", ""} :
       /\ OrElse(msg, "Unable to render chart.") # error
       /\ error' = OrElse(msg, "Unable to render chart.")
  /\ lastOp' = [op |-> "chartError", run |-> Null, note |-> ""]
  /\ UNCHANGED <<envVars, renameVars, query, deleteThreadId, nextId, pinVars, threadVars,
                 statusVars, runVars>>

\* ------------------------------------------------------------------ storage
\* The origin's storage quota is used up (by this page or by another page
\* of the origin): from now on every setItem throws.
StorageFills ==
  /\ ~storageFull
  /\ storageFull' = TRUE
  /\ lastOp' = [op |-> "storageFills", run |-> Null, note |-> ""]
  /\ UNCHANGED <<storedCharts, chartView, renameVars, query, error, deleteThreadId,
                 nextId, pinVars, threadVars, statusVars, runVars>>

\* --------------------------------------------------------------- chart view
\* Values of the spec prop: nothing, a string that is not JSON, an object
\* with neither a schema nor marks, a Vega-Lite spec, a Vega spec.
ChartSpecs == {"", "not json", "{}", "vega-lite", "vega"}

\* normalizeSpec(input): null, or the mode the spec is embedded with.
normalizeSpec(input) ==
  IF input \in {"", "not json", "{}"} THEN "null" ELSE input

\* Messages of the errors embed rejects with.
EmbedErrors == {"", "Unsupported mark"}

\* The closure of one effect run that called embed: the promise, the
\* cancelled flag, whether view has been assigned, and the renderer
\* (result.view) the promise resolved with.
NewEffect ==
  [embed |-> "pending", cancelled |-> FALSE, viewSet |-> FALSE,
   renderer |-> "none"]

\* The cleanup the last effect run returned, if it returned one: cancelled
\* is set, the view is finalized if it has been assigned, the container is
\* emptied.
Cleanup(cv) ==
  IF cv.cleanup = Null THEN cv
  ELSE [cv EXCEPT !.cleanup = Null,
                  !.effects[cv.cleanup].cancelled = TRUE,
                  !.effects[cv.cleanup].renderer =
                     IF cv.effects[cv.cleanup].viewSet THEN "finalized" ELSE @]

\* The body of the effect: nothing for a missing spec, onError for a spec
\* normalizeSpec rejects (no cleanup is returned in either case), otherwise
\* embed is called and a cleanup is returned.
EffectBody(cv) ==
  IF normalizeSpec(cv.spec) = "null" THEN cv
  ELSE [cv EXCEPT !.effects = Append(@, NewEffect),
                  !.cleanup = Len(cv.effects) + 1]

\* The error the effect body reports through onError, if it reports one.
EffectError(sp, err) ==
  IF sp # "" /\ normalizeSpec(sp) = "null"
  THEN OrElse("Invalid chart specification.", "Unable to render chart.")
  ELSE err

\* React runs the effect again: the cleanup of the run before, then the body.
RunEffect(cv) == EffectBody(Cleanup(cv))

chartFrame == <<storedCharts, storageFull, renameVars, query, deleteThreadId,
                nextId, pinVars, threadVars, statusVars, runVars>>

\* A chart view is mounted with a spec and its effect runs.  An error
\* reported by the body renders App again, which runs the effect once more
\* (onError is a new function on every render of App): the second report
\* carries the same message and changes nothing.
MountChart ==
  \E sp \in ChartSpecs :
    /\ ~chartView.mounted
    /\ Len(chartView.effects) < MaxEffects
    /\ chartView' = EffectBody([chartView EXCEPT !.mounted = TRUE, !.spec = sp])
    /\ error' = EffectError(sp, error)
    /\ lastOp' = [op |-> "mountChart", run |-> Null, note |-> sp]
    /\ UNCHANGED chartFrame

\* The dependencies of the effect change while the view is mounted: the
\* chart shown gets another spec, or App renders and hands down a new
\* onError.  The cleanup of the run before runs first, then the body.
RenderChart ==
  \E sp \in ChartSpecs :
    /\ chartView.mounted
    /\ Len(chartView.effects) < MaxEffects
    /\ chartView' = RunEffect([chartView EXCEPT !.spec = sp])
    /\ error' = EffectError(sp, error)
    /\ lastOp' = [op |-> "renderChart", run |-> Null, note |-> sp]
    /\ UNCHANGED chartFrame

\* The chart view is unmounted: the cleanup of the last run, if any.
UnmountChart ==
  /\ chartView.mounted
  /\ chartView' = [Cleanup(chartView) EXCEPT !.mounted = FALSE]
  /\ lastOp' = [op |-> "unmountChart", run |-> Null, note |-> ""]
  /\ UNCHANGED <<error, chartFrame>>

\* A then-callback that assigns the view whatever cancelled says.
EmbedResolvesIgnoringCancelled(i) ==
  /\ i \in 1..Len(chartView.effects)
  /\ chartView.effects[i].embed = "pending"
  /\ chartView' = [chartView EXCEPT !.effects[i].embed = "resolved",
                                    !.effects[i].viewSet = TRUE,
                                    !.effects[i].renderer = "live"]
  /\ lastOp' = [op |-> "embedResolves", run |-> Null,
                note |-> IF chartView.effects[i].cancelled THEN "late" ELSE ""]
  /\ UNCHANGED <<error, chartFrame>>

\* The promise of embed resolves with a renderer: finalized on the spot if
\* the cleanup has run, kept in view otherwise.
EmbedResolves(i) ==
  /\ i \in 1..Len(chartView.effects)
  /\ chartView.effects[i].embed = "pending"
  /\ chartView' =
       IF chartView.effects[i].cancelled
       THEN [chartView EXCEPT !.effects[i].embed = "resolved",
                              !.effects[i].renderer = "finalized"]
       ELSE [chartView EXCEPT !.effects[i].embed = "resolved",
                              !.effects[i].viewSet = TRUE,
                              !.effects[i].renderer = "live"]
  /\ lastOp' = [op |-> "embedResolves", run |-> Null,
                note |-> IF chartView.effects[i].cancelled THEN "late" ELSE ""]
  /\ UNCHANGED <<error, chartFrame>>

\* The promise of embed rejects: onError(error), whatever cancelled says.
\* A message that changes App's error renders App, and a mounted view runs
\* its effect again with the new onError.
EmbedRejects(i) ==
  \E msg \in EmbedErrors :
    LET rejected == [chartView EXCEPT !.effects[i].embed = "rejected"]
        next == OrElse(msg, "Unable to render chart.")
        renders == next # error /\ chartView.mounted
    IN
    /\ i \in 1..Len(chartView.effects)
    /\ chartView.effects[i].embed = "pending"
    /\ renders => Len(chartView.effects) < MaxEffects
    /\ error' = next
    /\ chartView' = IF renders THEN RunEffect(rejected) ELSE rejected
    /\ lastOp' = [op |-> "embedRejects", run |-> Null,
                  note |-> IF renders THEN "rendered" ELSE ""]
    /\ UNCHANGED chartFrame

\* ------------------------------------------------------------ thread store
\* startNewThread without persistActiveThread(newId).
StartNewThreadKeepsActive ==
  /\ nextId <= MaxId
  /\ LET next == PrependEmpty(threads, nextId) IN
     /\ storedThreads' = SetItem(storedThreads, JsonThreads(next))
     /\ Commit(next, Session, status)
  /\ nextId' = nextId + 1
  /\ lastOp' = [op |-> "startNewThread", run |-> Null, note |-> ""]
  /\ UNCHANGED <<envVars, renameVars, query, error, deleteThreadId, pinVars, runVars>>

\* startNewThread: persistThreads(prepend), persistActiveThread(newId).
\* The note tells whether the handler returned or threw.
StartNewThread ==
  /\ nextId <= MaxId
  /\ LET next == PrependEmpty(threads, nextId) IN
     /\ storedThreads' = SetItem(storedThreads, JsonThreads(next))
     /\ Commit(next, PersistActiveThread(nextId, storedActive), status)
  /\ nextId' = nextId + 1
  /\ lastOp' = [op |-> "startNewThread", run |-> Null,
                note |-> IF PersistActiveThreadThrows(nextId) THEN "threw" ELSE ""]
  /\ UNCHANGED <<envVars, renameVars, query, error, deleteThreadId, pinVars, runVars>>

\* selectThread: a click on a thread of the sidebar.
SelectThread ==
  \E id \in ThreadIds(threads) :
    /\ id # activeThreadId
    /\ Commit(threads, PersistActiveThread(id, storedActive), status)
    /\ lastOp' = [op |-> "selectThread", run |-> Null,
                  note |-> IF PersistActiveThreadThrows(id) THEN "threw" ELSE ""]
    /\ UNCHANGED <<envVars, renameVars, query, error, storedThreads, deleteThreadId, nextId,
                   pinVars, runVars>>

\* requestDeleteThread: stage the thread.
RequestDeleteThread ==
  \E id \in ThreadIds(threads) :
    /\ deleteThreadId = Null
    /\ deleteThreadId' = id
    /\ lastOp' = [op |-> "requestDeleteThread", run |-> Null, note |-> ""]
    /\ UNCHANGED <<envVars, renameVars, query, error, nextId, pinVars, threadVars, statusVars,
                   runVars>>

\* A confirmDeleteThread that also drops the pinned copies of the thread's
\* charts.
ConfirmDeleteThreadCascade ==
  /\ deleteThreadId # Null
  /\ LET next == RemoveThread(threads, deleteThreadId)
         s == IF activeThreadId = deleteThreadId
              THEN PersistActiveThread(Null, storedActive)
              ELSE Session
         kept == SelectSeq(pinnedCharts, LAMBDA c : c.threadId # deleteThreadId)
     IN
     /\ storedThreads' = SetItem(storedThreads, JsonThreads(next))
     /\ Commit(next, s, status)
     /\ pinnedCharts' = kept
     /\ storedPinned' = SetItem(storedPinned, JsonCharts(kept))
  /\ deleteThreadId' = Null
  /\ lastOp' = [op |-> "confirmDeleteThread", run |-> Null,
                note |-> IF activeThreadId = deleteThreadId THEN "active" ELSE "other"]
  /\ UNCHANGED <<envVars, renameVars, query, error, nextId, pinCandidate,
                 deleteCandidate, runVars>>

\* confirmDeleteThread: remove the staged thread; if it is the active one,
\* persistActiveThread(null); then the effects.
ConfirmDeleteThread ==
  /\ deleteThreadId # Null
  /\ LET next == RemoveThread(threads, deleteThreadId)
         s == IF activeThreadId = deleteThreadId
              THEN PersistActiveThread(Null, storedActive)
              ELSE Session
     IN
     /\ storedThreads' = SetItem(storedThreads, JsonThreads(next))
     /\ Commit(next, s, status)
  /\ deleteThreadId' = Null
  /\ lastOp' = [op |-> "confirmDeleteThread", run |-> Null,
                note |-> IF activeThreadId = deleteThreadId THEN "active" ELSE "other"]
  /\ UNCHANGED <<envVars, renameVars, query, error, nextId, pinVars, runVars>>

\* cancelDeleteThread.
CancelDeleteThread ==
  /\ deleteThreadId # Null
  /\ deleteThreadId' = Null
  /\ lastOp' = [op |-> "cancelDeleteThread", run |-> Null, note |-> ""]
  /\ UNCHANGED <<envVars, renameVars, query, error, nextId, pinVars, threadVars, statusVars,
                 runVars>>

\* pinThreadToTop: offered by the menu of a thread that is not pinned.
PinThreadToTop ==
  \E id \in ThreadIds(threads) :
    /\ ~threads[FindIndex(threads, id)].pinned
    /\ LET next == reorderThreads(SetPinned(threads, id, TRUE), id) IN
       /\ storedThreads' = SetItem(storedThreads, JsonThreads(next))
       /\ Commit(next, Session, status)
    /\ lastOp' = [op |-> "pinThreadToTop", run |-> Null, note |-> ""]
    /\ UNCHANGED <<envVars, renameVars, query, error, deleteThreadId, nextId, pinVars,
                   runVars>>

\* unpinThread: offered by the menu of a pinned thread.
UnpinThread ==
  \E id \in ThreadIds(threads) :
    /\ threads[FindIndex(threads, id)].pinned
    /\ LET next == reorderThreads(SetPinned(threads, id, FALSE), Null) IN
       /\ storedThreads' = SetItem(storedThreads, JsonThreads(next))
       /\ Commit(next, Session, status)
    /\ lastOp' = [op |-> "unpinThread", run |-> Null, note |-> ""]
    /\ UNCHANGED <<envVars, renameVars, query, error, deleteThreadId, nextId, pinVars,
                   runVars>>

\* startRenameThread(thread): open the dialog on the thread's title.
StartRenameThread ==
  \E i \in 1..Len(threads) :
    /\ renameThreadId = Null
    /\ renameThreadId' = threads[i].id
    /\ renameValue' = threads[i].title
    /\ lastOp' = [op |-> "startRenameThread", run |-> Null, note |-> ""]
    /\ UNCHANGED <<envVars, query, error, deleteThreadId, nextId, pinVars, threadVars,
                   statusVars, runVars>>

\* onChange of the input of the rename dialog.
SetRenameValue ==
  \E v \in RenameValues :
    /\ renameThreadId # Null
    /\ v # renameValue
    /\ renameValue' = v
    /\ lastOp' = [op |-> "setRenameValue", run |-> Null, note |-> ""]
    /\ UNCHANGED <<envVars, renameThreadId, query, error, deleteThreadId, nextId,
                   pinVars, threadVars, statusVars, runVars>>

\* confirmRenameThread: with a blank text it returns and the dialog stays;
\* otherwise the thread takes the trimmed text and the dialog closes.
ConfirmRenameThread ==
  /\ renameThreadId # Null
  /\ IF Trim(renameValue) = ""
     THEN /\ lastOp.op # "renameBlank"
          /\ lastOp' = [op |-> "renameBlank", run |-> Null, note |-> ""]
          /\ UNCHANGED <<envVars, renameVars, query, error, deleteThreadId, nextId,
                         pinVars, threadVars, statusVars, runVars>>
     ELSE /\ LET next == RenameThread(threads, renameThreadId, Trim(renameValue)) IN
             /\ storedThreads' = SetItem(storedThreads, JsonThreads(next))
             /\ Commit(next, Session, status)
          /\ renameThreadId' = Null
          /\ renameValue' = ""
          /\ lastOp' = [op |-> "confirmRenameThread", run |-> Null, note |-> ""]
          /\ UNCHANGED <<envVars, query, error, deleteThreadId, nextId, pinVars, runVars>>

\* cancelRenameThread.
CancelRenameThread ==
  /\ renameThreadId # Null
  /\ renameThreadId' = Null
  /\ renameValue' = ""
  /\ lastOp' = [op |-> "cancelRenameThread", run |-> Null, note |-> ""]
  /\ UNCHANGED <<envVars, query, error, deleteThreadId, nextId, pinVars, threadVars,
                 statusVars, runVars>>

\* ------------------------------------------------------- pinned-chart store
\* persistPinnedCharts(next).
PersistPinnedCharts(next) ==
  /\ pinnedCharts' = next
  /\ storedPinned' = SetItem(storedPinned, JsonCharts(next))

\* requestPin: stage a chart of the thread store.
RequestPin ==
  \E chart \in AllCharts(threads) :
    /\ pinCandidate = NoChart
    /\ pinCandidate' = chart
    /\ lastOp' = [op |-> "requestPin", run |-> Null, note |-> ""]
    /\ UNCHANGED <<envVars, renameVars, query, error, deleteThreadId, nextId, pinnedCharts,
                   storedPinned, deleteCandidate, threadVars, statusVars,
                   runVars>>

\* confirmPin: handlePin(pinCandidate), which returns without writing when
\* the id is already pinned, then clear the candidate.
ConfirmPin ==
  /\ pinCandidate # NoChart
  /\ LET next == PinChart(pinnedCharts, pinCandidate) IN
     IF next = pinnedCharts
     THEN UNCHANGED <<envVars, pinnedCharts, storedPinned>>
     ELSE PersistPinnedCharts(next)
  /\ pinCandidate' = NoChart
  /\ lastOp' = [op |-> "confirmPin", run |-> Null,
                note |-> IF PinChart(pinnedCharts, pinCandidate) = pinnedCharts
                         THEN "already" ELSE "new"]
  /\ UNCHANGED <<envVars, renameVars, query, error, deleteThreadId, nextId, deleteCandidate,
                 threadVars, statusVars, runVars>>

\* cancelPin.
CancelPin ==
  /\ pinCandidate # NoChart
  /\ pinCandidate' = NoChart
  /\ lastOp' = [op |-> "cancelPin", run |-> Null, note |-> ""]
  /\ UNCHANGED <<envVars, renameVars, query, error, deleteThreadId, nextId, pinnedCharts,
                 storedPinned, deleteCandidate, threadVars, statusVars,
                 runVars>>

\* A requestDelete that unpins at once.
RequestDeleteImmediate ==
  \E i \in 1..Len(pinnedCharts) :
    /\ deleteCandidate = NoChart
    /\ deleteCandidate' = pinnedCharts[i]
    /\ PersistPinnedCharts(UnpinChart(pinnedCharts, pinnedCharts[i].id))
    /\ lastOp' = [op |-> "requestDelete", run |-> Null, note |-> ""]
    /\ UNCHANGED <<envVars, renameVars, query, error, deleteThreadId, nextId,
                   pinCandidate, threadVars, statusVars, runVars>>

\* requestDelete: stage a pinned chart.
RequestDelete ==
  \E i \in 1..Len(pinnedCharts) :
    /\ deleteCandidate = NoChart
    /\ deleteCandidate' = pinnedCharts[i]
    /\ lastOp' = [op |-> "requestDelete", run |-> Null, note |-> ""]
    /\ UNCHANGED <<envVars, renameVars, query, error, deleteThreadId, nextId, pinnedCharts,
                   storedPinned, pinCandidate, threadVars, statusVars,
                   runVars>>

\* confirmDelete: handleUnpin(deleteCandidate.id), then clear the candidate.
ConfirmDelete ==
  /\ deleteCandidate # NoChart
  /\ PersistPinnedCharts(UnpinChart(pinnedCharts, deleteCandidate.id))
  /\ deleteCandidate' = NoChart
  /\ lastOp' = [op |-> "confirmDelete", run |-> Null, note |-> ""]
  /\ UNCHANGED <<envVars, renameVars, query, error, deleteThreadId, nextId, pinCandidate,
                 threadVars, statusVars, runVars>>

\* cancelDelete.
CancelDelete ==
  /\ deleteCandidate # NoChart
  /\ deleteCandidate' = NoChart
  /\ lastOp' = [op |-> "cancelDelete", run |-> Null, note |-> ""]
  /\ UNCHANGED <<envVars, renameVars, query, error, deleteThreadId, nextId, pinnedCharts,
                 storedPinned, pinCandidate, threadVars, statusVars, runVars>>

\* ------------------------------------------------------------ specification
RunStep(r) ==
  \/ RunCancelled(r)
  \/ PostOk(r)
  \/ PostNoId(r)
  \/ RequestFailed(r)
  \/ JobFailed(r)
  \/ PollPending(r)
  \/ SleepDone(r)
  \/ AskFinished(r)
  \/ ChartMissing(r)
  \/ ChartFinished(r)

\* The query pipeline: submissions, the steps of the runs, the clock, the
\* auto-revert timer and rendering errors.
Next ==
  \/ SetQuery
  \/ SubmitBlank
  \/ Submit
  \/ \E r \in RunIds : RunStep(r)
  \/ Tick
  \/ StatusTimerFires
  \/ HandleChartError

Spec == Init /\ [][Next]_vars

\* The thread store: the sidebar actions, with runs whose jobs succeed.
\* The submit button is disabled while status is 'asking' or 'charting', so
\* through the form a run is never preempted.
StoreSubmit ==
  /\ status \notin {"asking", "charting"}
  /\ HandleSubmit(MaxStoreRuns)

StoreRunStep(r) ==
  \/ PostOk(r)
  \/ AskFinished(r)
  \/ ChartFinished(r)

NextStore ==
  \/ SetQuery
  \/ StoreSubmit
  \/ \E r \in RunIds : StoreRunStep(r)
  \/ StartNewThread
  \/ SelectThread
  \/ RequestDeleteThread
  \/ ConfirmDeleteThread
  \/ CancelDeleteThread

SpecStore == Init /\ [][NextStore]_vars

\* The order of the sidebar: new threads, pinning and unpinning, deleting,
\* with runs whose jobs succeed.
NextThreads ==
  \/ SetQuery
  \/ StoreSubmit
  \/ \E r \in RunIds : StoreRunStep(r)
  \/ StartNewThread
  \/ PinThreadToTop
  \/ UnpinThread
  \/ RequestDeleteThread
  \/ ConfirmDeleteThread
  \/ CancelDeleteThread

SpecThreads == Init /\ [][NextThreads]_vars

\* The titles of the sidebar: new threads and the rename dialog, with runs
\* whose jobs succeed.
NextRename ==
  \/ SetQuery
  \/ StoreSubmit
  \/ \E r \in RunIds : StoreRunStep(r)
  \/ StartNewThread
  \/ StartRenameThread
  \/ SetRenameValue
  \/ ConfirmRenameThread
  \/ CancelRenameThread

SpecRename == Init /\ [][NextRename]_vars

\* Loading and reloading: the page starts from what storage holds, the
\* stores are changed through the sidebar and the pin dialog, and the page
\* is reloaded at any time.
NextLoad ==
  \/ Mount
  \/ Loaded /\ StartNewThread
  \/ Loaded /\ PinThreadToTop
  \/ Loaded /\ UnpinThread
  \/ Loaded /\ RequestDeleteThread
  \/ Loaded /\ ConfirmDeleteThread
  \/ Loaded /\ RequestPin
  \/ Loaded /\ ConfirmPin

SpecLoad == InitBoot /\ [][NextLoad]_vars

\* Writes that fail: the stores are changed through the sidebar, the pin
\* dialog and runs whose jobs succeed, before and after the quota is used
\* up.  No thread is deleted, so the reconciliation effects (which call
\* persistActiveThread outside any handler) never have to write.
NextQuota ==
  \/ StorageFills
  \/ SetQuery
  \/ StoreSubmit
  \/ \E r \in RunIds : StoreRunStep(r)
  \/ StartNewThread
  \/ SelectThread
  \/ RequestPin
  \/ ConfirmPin

SpecQuota == Init /\ [][NextQuota]_vars

\* A chart view of a page that shows a stored chart: mounted and unmounted,
\* rendered again, with embeds that resolve or reject at any later time.
InitChart ==
  /\ storageFull = FALSE
  /\ storedCharts = AbsentDoc
  /\ storedPinned = AbsentDoc
  /\ LET l == LoadEffect(TwoThreads, AbsentDoc, 11, AbsentDoc, 1) IN
     /\ threads = l.threads
     /\ storedThreads = l.storedThreads
     /\ activeThreadId = l.activeThreadId
     /\ storedActive = l.storedActive
     /\ pinnedCharts = l.pinnedCharts
     /\ nextId = l.nextId
     /\ lastOp = [op |-> "load", run |-> Null, note |-> l.note]
  /\ UseStateDefaults

NextChart ==
  \/ MountChart
  \/ RenderChart
  \/ UnmountChart
  \/ \E i \in 1..MaxEffects : EmbedResolves(i)
  \/ \E i \in 1..MaxEffects : EmbedRejects(i)

SpecChart == InitChart /\ [][NextChart]_vars

\* The pinned-chart store next to the thread store: charts are produced by
\* runs, pinned and unpinned through their dialogs, and threads are deleted.
NextPins ==
  \/ SetQuery
  \/ StoreSubmit
  \/ \E r \in RunIds : StoreRunStep(r)
  \/ RequestPin
  \/ ConfirmPin
  \/ CancelPin
  \/ RequestDelete
  \/ ConfirmDelete
  \/ CancelDelete
  \/ RequestDeleteThread
  \/ ConfirmDeleteThread
  \/ CancelDeleteThread

SpecPins == Init /\ [][NextPins]_vars

\* ===================================================================== claims
storeVars == <<threads, storedThreads, activeThreadId, storedActive,
               pinnedCharts, storedPinned>>

\* Run r takes a step: it was suspended and resumes.
Resumes(r) == InFlight(r) /\ lastOp'.run = r /\ runs'[r] # runs[r]

\* A newer submission has started since run r, which is still in flight.
Superseded(r) == InFlight(r) /\ controllerRef # r

\* C1: a run that a newer submission has superseded never changes a store,
\* whenever and in whatever order its pending calls complete: every step it
\* takes leaves the thread store, the active thread id and the pinned store
\* (in memory and in storage) as they are.
C1_SupersededRunLeavesStores ==
  [][\A r \in RunIds :
       (Superseded(r) /\ runs'[r] # runs[r]) => UNCHANGED storeVars]_vars

\* C1 witness: a superseded run has returned while the run that superseded
\* it is in flight.
C1_Witness ==
  /\ lastOp.op = "cancelled"
  /\ controllerRef # lastOp.run
  /\ InFlight(controllerRef)

\* C2: at most one run holds a token that is not aborted, and it is the run
\* of the latest submission; every earlier run has returned or is aborted
\* (the abort is part of the submission, before its POST /v1/asks), and the
\* latest submission is started, not queued.
C2_AtMostOneLiveRun ==
  /\ Cardinality({r \in RunIds : InFlight(r) /\ ~runs[r].aborted}) <= 1
  /\ \A r \in RunIds : (InFlight(r) /\ ~runs[r].aborted) => r = controllerRef
  /\ \A r \in RunIds : r < nRuns => (runs[r].pc = "ended" \/ runs[r].aborted)
  /\ nRuns > 0 => (controllerRef = nRuns /\ runs[nRuns].pc # "none")

\* C2 witness: the preempted run is still suspended, aborted, while the new
\* run is in flight.
C2_Witness ==
  \E r1, r2 \in RunIds :
    /\ r1 < r2
    /\ InFlight(r1) /\ runs[r1].aborted
    /\ InFlight(r2) /\ ~runs[r2].aborted

\* C3: status changes only by: anything -> asking (a submission),
\* asking -> charting, charting -> done, asking -> error, charting -> error,
\* done -> idle (the timer); the timer acts only on done.
C3_StatusTransitions ==
  [][/\ status' # status =>
          \/ status' = "asking" /\ lastOp'.op = "submit"
          \/ status = "asking" /\ status' = "charting"
          \/ status = "charting" /\ status' = "done"
          \/ status \in {"asking", "charting"} /\ status' = "error"
          \/ status = "done" /\ status' = "idle" /\ lastOp'.op = "statusTimer"
     /\ (lastOp'.op = "statusTimer" /\ lastOp' # lastOp) => status = "done"]_vars

\* C3 witness: the timer has reverted done to idle after a run.
C3_Witness == lastOp.op = "statusTimer" /\ status = "idle" /\ nRuns > 0

\* C4: when an aborted run returns (the Cancelled outcome), status, error
\* message, thread store, active thread id and pinned store are the same
\* after its return as before.
C4_CancelledRecordsNothing ==
  [][\A r \in RunIds :
       (InFlight(r) /\ runs[r].aborted /\ runs'[r].pc = "ended")
         => UNCHANGED <<status, statusTimer, error, storeVars>>]_vars

\* C4 witness: a run was cancelled in its chart phase; the newer run's
\* 'asking' and empty error message stand.
C4_Witness ==
  /\ lastOp.op = "cancelled"
  /\ lastOp.note \in ChartPcs
  /\ status = "asking"
  /\ error = ""

FailureOps == {"postNoId", "requestFailed", "jobFailed", "timeout", "noSql", "noChart"}

\* The message each failure carries, by phase (ask or chart).
FailureMessage(op, note, ask) ==
  CASE op = "postNoId" -> IF ask THEN "Ask request did not return a query id."
                          ELSE "Chart request did not return a query id."
    [] op = "requestFailed" -> IF note # "" THEN note ELSE "Request failed (500)"
    [] op = "jobFailed" -> IF note # "" THEN note
                           ELSE IF ask THEN "Ask failed." ELSE "Chart generation failed."
    [] op = "timeout" -> IF ask THEN "Ask timed out." ELSE "Chart generation timed out."
    [] op = "noSql" -> "No SQL was returned for this query."
    [] OTHER -> "Chart was not generated."

\* C5: when the live run fails (not by cancellation), status becomes error,
\* the error message is the failure's message (the service's message for a
\* failed or stopped job, a generic one if it gave none), the thread store
\* and the active thread id stay as they are, and the thread id synthesized
\* for the run names no thread of the store.  No step of a run other than
\* its successful completion changes the thread store or the active id.
C5_FailureRecordsErrorOnly ==
  [][/\ \A r \in RunIds :
          (Resumes(r) /\ ~runs[r].aborted /\ lastOp'.op \in FailureOps) =>
             /\ status' = "error"
             /\ error' = FailureMessage(lastOp'.op, lastOp'.note, IsAsk(runs[r]))
             /\ runs'[r].pc = "ended"
             /\ UNCHANGED threadVars
             /\ runs[r].isNewThread => ~HasThread(threads', runs[r].threadId)
     /\ \A r \in RunIds :
          (Resumes(r) /\ lastOp'.op # "chartFinished") => UNCHANGED threadVars]_vars

\* C5 witness: the ask poll answered failed with "model timeout" for a run
\* submitted without an active thread.
C5_Witness ==
  /\ lastOp.op = "jobFailed"
  /\ lastOp.note = "model timeout"
  /\ error = "model timeout"
  /\ status = "error"
  /\ threads = <<>>
  /\ activeThreadId = Null

\* C6: a run enters its chart phase (POST /v1/charts) only from the ask poll
\* that answered finished with a non-empty sql, which it carries from then
\* on; a finished ask result without sql ends the run in error, and a run
\* that has returned issues nothing more.
C6_ChartAfterSql ==
  [][\A r \in RunIds :
       /\ (runs'[r].pc \in ChartPcs /\ runs[r].pc \notin ChartPcs) =>
             /\ runs[r].pc = "askGet"
             /\ lastOp' = [op |-> "askFinished", run |-> r, note |-> ""]
             /\ runs'[r].pc = "chartPost"
             /\ runs'[r].sql # ""
       /\ runs[r].pc \in ChartPcs => runs[r].sql # ""
       /\ (Resumes(r) /\ lastOp'.op = "noSql") =>
             /\ runs[r].pc = "askGet"
             /\ runs'[r].pc = "ended"
             /\ status' = "error"
       /\ runs[r].pc = "ended" => runs'[r].pc = "ended"]_vars

\* C6 witness: the chart job of a run is being submitted with the sql of
\* its ask job.
C6_Witness ==
  \E r \in RunIds : runs[r].pc = "chartPost" /\ runs[r].sql = "SELECT 1"

\* C7 as stated: once the deadline of a poll loop has passed, the loop ends
\* in the timeout error whatever the server then reports.
C7_DeadlineWhateverReported ==
  [][\A r \in RunIds :
       (Resumes(r) /\ ~runs[r].aborted /\ runs[r].pc \in GetPcs
          /\ runs[r].t > TimeoutTicks) => lastOp'.op = "timeout"]_vars

PollOutcomes ==
  {"askFinished", "chartFinished", "noSql", "noChart", "jobFailed",
   "requestFailed", "timeout", "pollPending"}

\* C7 amended: the deadline, counted from the start of the poll loop, is
\* looked at only when a poll answers with a status that is not terminal.
\* Such an answer past the deadline ends the run in the timeout error, with
\* the thread store and the active id untouched; within the deadline it
\* starts one more delay, so a delay never starts past the deadline.  Every
\* answered poll is exactly one of finished, failed, timed out or pending.
C7_DeadlineAtPendingAnswer ==
  [][\A r \in RunIds :
       /\ (Resumes(r) /\ ~runs[r].aborted /\ runs[r].pc \in GetPcs) =>
             /\ lastOp'.op \in PollOutcomes
             /\ lastOp'.op = "timeout" =>
                   /\ runs[r].t > TimeoutTicks
                   /\ runs'[r].pc = "ended"
                   /\ status' = "error"
                   /\ error' = (IF IsAsk(runs[r]) THEN "Ask timed out."
                                ELSE "Chart generation timed out.")
                   /\ UNCHANGED threadVars
             /\ lastOp'.op = "pollPending" =>
                   /\ runs[r].t <= TimeoutTicks
                   /\ runs'[r].pc \in SleepPcs
       /\ (runs'[r].pc \in SleepPcs /\ ~runs'[r].slept) =>
             runs'[r].t <= TimeoutTicks]_vars

\* C7 witness: an ask poll loop has timed out.
C7_Witness ==
  /\ lastOp.op = "timeout"
  /\ status = "error"
  /\ error = "Ask timed out."

\* C8: once its token is aborted a run issues no request: the abort leaves
\* it at its suspension point, and the only step it takes from there, be it
\* from a pending request or from a pending poll delay, is to return as
\* cancelled.
C8_NoRequestAfterAbort ==
  [][\A r \in RunIds :
       /\ (InFlight(r) /\ ~runs[r].aborted /\ runs'[r].aborted) =>
             runs'[r] = [runs[r] EXCEPT !.aborted = TRUE]
       /\ (InFlight(r) /\ runs[r].aborted /\ runs'[r] # runs[r]) =>
             /\ runs'[r].pc = "ended"
             /\ lastOp' = [op |-> "cancelled", run |-> r, note |-> runs[r].pc]]_vars

\* C8 witness: a run was cancelled out of a poll delay that had already run
\* its time.
C8_Witness == lastOp.op = "cancelled" /\ lastOp.note \in SleepPcs

\* C9: the confirmed deletion of the active thread leaves, once the effects
\* have run, the first remaining thread active, or none if none remains;
\* the deleted thread is gone and the active id is not its id.
C9_DeleteActiveThread ==
  [][(lastOp'.op = "confirmDeleteThread" /\ deleteThreadId # Null
        /\ deleteThreadId' = Null /\ activeThreadId = deleteThreadId) =>
       /\ ~HasThread(threads', deleteThreadId)
       /\ activeThreadId' # deleteThreadId
       /\ activeThreadId' = (IF Len(threads') > 0 THEN threads'[1].id ELSE Null)]_vars

\* C9 witness: the active thread was deleted and another thread is active.
C9_Witness ==
  /\ lastOp.op = "confirmDeleteThread"
  /\ lastOp.note = "active"
  /\ Len(threads) > 0
  /\ activeThreadId = threads[1].id

\* C10: after the load and after every action, the active thread id is none
\* exactly when the thread store is empty, otherwise it is the id of a
\* thread of the store; storage holds the same id.
C10_ActiveThreadReconciled ==
  /\ activeThreadId = Null <=> Len(threads) = 0
  /\ activeThreadId # Null => HasThread(threads, activeThreadId)
  /\ storedActive = activeThreadId

\* C10 witness: storage held an active id that no thread has, and the load
\* has made the first thread active.
C10_Witness ==
  /\ lastOp.op = "load"
  /\ lastOp.note = "dangling"
  /\ Len(threads) > 0
  /\ activeThreadId = threads[1].id

\* C11: in every state reachable from an empty store by new threads,
\* successful runs, pinning and unpinning, renaming and deleting, every
\* pinned thread comes before every unpinned thread of the thread store.
C11_PinnedBeforeUnpinned ==
  \A i, j \in 1..Len(threads) : (i < j /\ threads[j].pinned) => threads[i].pinned

\* The list with one thread inserted before position k.
InsertAt(list, k, th) ==
  SubSeq(list, 1, k - 1) \o <<th>> \o SubSeq(list, k, Len(list))

\* C12: New Chat inserts exactly one thread, with the placeholder title, not
\* pinned and without charts, at the front of the unpinned segment: after
\* every pinned thread and before every existing unpinned thread; the
\* existing threads and their relative order are unchanged.
C12_NewThreadHeadsUnpinned ==
  [][lastOp'.op = "startNewThread" =>
       \E k \in 1..(Len(threads) + 1) :
         /\ threads' = InsertAt(threads, k, EmptyThread(nextId))
         /\ \A i \in 1..(k - 1) : threads[i].pinned
         /\ \A i \in k..Len(threads) : ~threads[i].pinned]_vars

\* C13 as stated: New Chat does not change the active thread, in memory or
\* in storage.
C13_NewThreadKeepsActive ==
  [][lastOp'.op = "startNewThread" =>
       UNCHANGED <<activeThreadId, storedActive>>]_vars

\* C13 amended: New Chat makes the thread it creates the active thread, in
\* memory and in storage, whatever thread was active before.
C13_NewThreadBecomesActive ==
  [][lastOp'.op = "startNewThread" =>
       /\ HasThread(threads', nextId)
       /\ ~HasThread(threads, nextId)
       /\ activeThreadId' = nextId
       /\ storedActive' = nextId]_vars

\* C13 witness: New Chat was clicked while another thread was active (a
\* store that is not empty always has an active thread), and the new thread
\* is the active one.
C13_Witness ==
  /\ lastOp.op = "startNewThread"
  /\ Len(threads) >= 2
  /\ activeThreadId = threads[1].id
  /\ threads[1] = EmptyThread(activeThreadId)

\* The threads other than id, in list order.
Others(list, id) == SelectSeq(list, LAMBDA th : th.id # id)

\* The pinned threads in list order.
PinnedSegment(list) == SelectSeq(list, LAMBDA th : th.pinned)

\* C14: pinning a thread marks it pinned and puts it at the very front of
\* the pinned segment; unpinning marks it unpinned and puts it in the
\* unpinned segment (no pinned thread after it); every other thread keeps
\* its pinned flag, title and charts, and the other threads keep their order
\* relative to one another.
C14_SetPinnedPlacesThread ==
  [][/\ lastOp'.op = "pinThreadToTop" =>
          \E i \in 1..Len(threads) :
            /\ ~threads[i].pinned
            /\ PinnedSegment(threads')[1] = [threads[i] EXCEPT !.pinned = TRUE]
            /\ Others(threads', threads[i].id) = Others(threads, threads[i].id)
     /\ lastOp'.op = "unpinThread" =>
          \E i \in 1..Len(threads) :
            /\ threads[i].pinned
            /\ \E j \in 1..Len(threads') :
                 /\ threads'[j] = [threads[i] EXCEPT !.pinned = FALSE]
                 /\ \A k \in j..Len(threads') : ~threads'[k].pinned
            /\ Others(threads', threads[i].id) = Others(threads, threads[i].id)]_vars

\* The thread of the list that has the id.
ThreadOf(list, id) == list[FindIndex(list, id)]

\* C15: a thread's charts are the artifacts appended to it, in append order.
\* The completion of a run adds its artifact at the end of the charts of its
\* target thread and leaves the charts that were there as they are; no step
\* changes the charts of any other thread, and a thread enters the store
\* with no chart (New Chat) or with the one artifact of the run that made it.
C15_ChartsAppendOnly ==
  [][/\ \A r \in RunIds : (Resumes(r) /\ lastOp'.op = "chartFinished") =>
          LET id == runs[r].threadId
              old == IF HasThread(threads, id) THEN ThreadOf(threads, id).charts
                     ELSE <<>>
          IN
          /\ HasThread(threads', id)
          /\ Len(ThreadOf(threads', id).charts) = Len(old) + 1
          /\ SubSeq(ThreadOf(threads', id).charts, 1, Len(old)) = old
          /\ LET c == ThreadOf(threads', id).charts[Len(old) + 1] IN
             /\ c.id = nextId
             /\ c.threadId = id
             /\ c.query = runs[r].query
             /\ c.sql = runs[r].sql
     /\ \A i \in 1..Len(threads') :
          \/ /\ lastOp'.op = "chartFinished"
             /\ threads'[i].id = runs[lastOp'.run].threadId
          \/ IF HasThread(threads, threads'[i].id)
             THEN threads'[i].charts = ThreadOf(threads, threads'[i].id).charts
             ELSE threads'[i].charts = <<>>]_vars

\* C15 witness: a second run has completed on a thread, whose charts are
\* the two artifacts in the order of their appends.
C15_Witness ==
  /\ lastOp.op = "chartFinished"
  /\ \E i \in 1..Len(threads) :
       /\ Len(threads[i].charts) = 2
       /\ threads[i].charts[1].id < threads[i].charts[2].id

\* C16: a query submitted with no active thread runs under a synthesized
\* thread id that names no thread and is not active while the run is in
\* flight; no step of the run other than its successful completion (so no
\* failure and no cancellation) touches the thread store or the active id;
\* the completion adds exactly one thread, titled with the trimmed query,
\* not pinned, holding exactly the new artifact (the sql of the ask job, the
\* title taken from the chart spec or else the query), and makes it active.
C16_NewThreadOnSuccess ==
  [][\A r \in RunIds :
       /\ (lastOp'.op = "submit" /\ lastOp'.run = r /\ runs[r].pc = "none") =>
             /\ runs'[r].isNewThread = (activeThreadId = Null)
             /\ runs'[r].query = Trim(query)
             /\ runs'[r].query # ""
       /\ (InFlight(r) /\ runs[r].isNewThread) =>
             /\ ~HasThread(threads, runs[r].threadId)
             /\ activeThreadId # runs[r].threadId
             /\ (Resumes(r) /\ lastOp'.op # "chartFinished") =>
                   UNCHANGED threadVars
             /\ (Resumes(r) /\ lastOp'.op = "chartFinished") =>
                   /\ Len(threads') = Len(threads) + 1
                   /\ SubSeq(threads', 1, Len(threads)) = threads
                   /\ LET th == threads'[Len(threads')] IN
                      /\ th.id = runs[r].threadId
                      /\ th.title = runs[r].query
                      /\ ~th.pinned
                      /\ Len(th.charts) = 1
                      /\ th.charts[1].id = nextId
                      /\ th.charts[1].query = runs[r].query
                      /\ th.charts[1].sql = runs[r].sql
                      /\ runs[r].sql # ""
                      /\ th.charts[1].title \in
                           {extractTitle(sp, runs[r].query) : sp \in Specs}
                   /\ activeThreadId' = runs[r].threadId
                   /\ storedActive' = runs[r].threadId
                   /\ storedThreads' = JsonThreads(threads')]_vars

\* C16 witness: the run of " sales ", submitted on an empty store, has
\* completed: one thread, titled "sales", active, with the one artifact
\* titled by its chart spec.
C16_Witness ==
  /\ lastOp.op = "chartFinished"
  /\ lastOp.note = "synthesized"
  /\ Len(threads) = 1
  /\ threads[1].title = "sales"
  /\ activeThreadId = threads[1].id
  /\ Len(threads[1].charts) = 1
  /\ threads[1].charts[1].title = "Sales by Region"
  /\ threads[1].charts[1].sql = "SELECT 1"

\* C17: when a run completes on a thread of the store, the thread's title
\* becomes the query text if and only if it was still the placeholder and
\* the thread had no chart; otherwise the title stays.  When the target id
\* names no thread of the store, a thread is created with the artifact as
\* its only chart and the query text as title.
C17_TitleOnAppend ==
  [][\A r \in RunIds : (Resumes(r) /\ lastOp'.op = "chartFinished") =>
       LET id == runs[r].threadId IN
       /\ HasThread(threads', id)
       /\ IF HasThread(threads, id)
          THEN ThreadOf(threads', id).title =
                 (IF ThreadOf(threads, id).title = Placeholder
                     /\ Len(ThreadOf(threads, id).charts) = 0
                  THEN runs[r].query
                  ELSE ThreadOf(threads, id).title)
          ELSE /\ ThreadOf(threads', id).title = runs[r].query
               /\ Len(ThreadOf(threads', id).charts) = 1
               /\ ThreadOf(threads', id).charts[1].id = nextId]_vars

\* C17 witness: a thread renamed to "Q3" before it had any chart has
\* received its first chart and kept its title.
C17_Witness ==
  /\ lastOp.op = "chartFinished"
  /\ \E i \in 1..Len(threads) :
       /\ threads[i].title = "Q3"
       /\ Len(threads[i].charts) = 1

\* The ids of the entries of a pinned collection.
PinnedIds(list) == {list[i].id : i \in 1..Len(list)}

\* C18: confirming a pin for a chart whose id is already pinned leaves the
\* pinned store (in memory and in storage) as it is, and confirming one
\* whose id is not pinned adds it at the end; so no two entries of the
\* pinned store ever share an id.
C18_PinIdempotent ==
  [][/\ (lastOp'.op = "confirmPin" /\ pinCandidate.id \in PinnedIds(pinnedCharts)) =>
          UNCHANGED <<pinnedCharts, storedPinned>>
     /\ (lastOp'.op = "confirmPin" /\ pinCandidate.id \notin PinnedIds(pinnedCharts)) =>
          /\ pinnedCharts' = Append(pinnedCharts, pinCandidate)
          /\ storedPinned' = JsonCharts(pinnedCharts')
     /\ Cardinality(PinnedIds(pinnedCharts')) = Len(pinnedCharts')
     /\ Cardinality(PinnedIds(storedPinned'.items)) = Len(storedPinned'.items)]_vars

\* C18 witness: the pin of a chart that was already pinned has been
\* confirmed, and the chart is pinned once.
C18_Witness ==
  /\ lastOp.op = "confirmPin"
  /\ lastOp.note = "already"
  /\ Len(pinnedCharts) = 1

\* C19: the pinned copy and the thread copy of a chart are independent.  A
\* step that changes the thread store or the active thread (the deletion of
\* a thread, the completion of a run) leaves the pinned store as it is; a
\* step that changes the pinned store (a pin, an unpin) leaves the thread
\* store and the active thread as they are.
C19_StoresIndependent ==
  [][/\ ~(UNCHANGED threadVars) => UNCHANGED <<pinnedCharts, storedPinned>>
     /\ ~(UNCHANGED <<pinnedCharts, storedPinned>>) => UNCHANGED threadVars
     /\ lastOp'.op = "confirmDeleteThread" => UNCHANGED <<pinnedCharts, storedPinned>>
     /\ lastOp'.op = "confirmDelete" => UNCHANGED threadVars]_vars

\* C19 witness: a thread has been deleted and the pinned copy of one of its
\* charts is still in the pinned store.
C19_Witness ==
  /\ lastOp.op = "confirmDeleteThread"
  /\ \E i \in 1..Len(pinnedCharts) : ~HasThread(threads, pinnedCharts[i].threadId)

\* C20: the actions that open a confirmation (pin a chart, delete a pinned
\* chart, delete a thread) only stage their candidate: no store and no
\* active thread changes.  An entry enters the pinned store only by the
\* confirmation of the pin that staged it, leaves it only by the
\* confirmation of the deletion that staged it, and a thread leaves the
\* thread store only by the confirmation of the deletion that staged it.
\* The cancel actions clear their candidate and leave every store as it is.
C20_ConfirmationGates ==
  [][/\ lastOp'.op = "requestPin" =>
          /\ pinCandidate' \in AllCharts(threads)
          /\ UNCHANGED <<storeVars, deleteCandidate, deleteThreadId>>
     /\ lastOp'.op = "requestDelete" =>
          /\ deleteCandidate'.id \in PinnedIds(pinnedCharts)
          /\ UNCHANGED <<storeVars, pinCandidate, deleteThreadId>>
     /\ lastOp'.op = "requestDeleteThread" =>
          /\ HasThread(threads, deleteThreadId')
          /\ UNCHANGED <<storeVars, pinCandidate, deleteCandidate>>
     /\ lastOp'.op = "cancelPin" =>
          /\ pinCandidate' = NoChart
          /\ UNCHANGED <<storeVars, deleteCandidate, deleteThreadId>>
     /\ lastOp'.op = "cancelDelete" =>
          /\ deleteCandidate' = NoChart
          /\ UNCHANGED <<storeVars, pinCandidate, deleteThreadId>>
     /\ lastOp'.op = "cancelDeleteThread" =>
          /\ deleteThreadId' = Null
          /\ UNCHANGED <<storeVars, pinCandidate, deleteCandidate>>
     /\ \A id \in PinnedIds(pinnedCharts') \ PinnedIds(pinnedCharts) :
          lastOp'.op = "confirmPin" /\ pinCandidate.id = id
     /\ \A id \in PinnedIds(pinnedCharts) \ PinnedIds(pinnedCharts') :
          lastOp'.op = "confirmDelete" /\ deleteCandidate.id = id
     /\ \A id \in ThreadIds(threads) \ ThreadIds(threads') :
          lastOp'.op = "confirmDeleteThread" /\ deleteThreadId = id
     /\ ~(UNCHANGED <<pinnedCharts, storedPinned>>) =>
          lastOp'.op \in {"confirmPin", "confirmDelete"}]_vars

\* C20 witness: the deletion of a pinned chart was requested and then
\* cancelled: the candidate is cleared and the chart is still pinned.
C20_Witness ==
  /\ lastOp.op = "cancelDelete"
  /\ deleteCandidate = NoChart
  /\ Len(pinnedCharts) = 1
  /\ storedPinned = JsonCharts(pinnedCharts)

\* C21: the load step over storage that holds no thread collection and a
\* non-empty legacy chart history leaves exactly one thread: unpinned, titled
\* with the first legacy chart's query, created when that chart was, holding
\* the whole legacy history in order, and written under the thread key.  Over
\* any other storage the load step synthesizes no thread: the threads in
\* memory are the stored ones, one for one, and the thread key is not written.
C21_LegacyMigration ==
  [][lastOp'.op = "load" =>
       IF /\ storedThreads.kind = "absent"
          /\ storedCharts.kind = "array"
          /\ Len(storedCharts.items) > 0
       THEN /\ Len(threads') = 1
            /\ ~threads'[1].pinned
            /\ threads'[1].title = storedCharts.items[1].query
            /\ threads'[1].createdAt = storedCharts.items[1].createdAt
            /\ threads'[1].charts = storedCharts.items
            /\ threads'[1].id = nextId
            /\ storedThreads' = JsonThreads(threads')
       ELSE /\ storedThreads' = storedThreads
            /\ nextId' = nextId
            /\ Len(threads') =
                 IF storedThreads.kind = "array"
                 THEN Len(storedThreads.items) ELSE 0
            /\ \A i \in 1..Len(threads') :
                 threads'[i].id = storedThreads.items[i].id
    ]_vars

\* A page loaded its two-chart legacy history into one thread.
C21_Witness ==
  /\ lastOp.op = "load"
  /\ lastOp.note = "migrated"
  /\ Len(threads) = 1
  /\ Len(threads[1].charts) = 2
  /\ threads[1].title = "revenue"
  /\ storedThreads = JsonThreads(threads)

\* C22: while writes succeed, what storage holds is what memory holds.  A
\* reload of a loaded page gives back the thread collection, equal in content
\* and order, with every pinned flag a boolean and every charts field a
\* sequence, and gives back the pinned collection; and every step of a mutator
\* that changes a collection in memory writes the whole new collection under
\* its key in the same step.
C22_ReloadRoundTrip ==
  [][/\ (Loaded /\ lastOp'.op = "load") =>
          /\ threads' = threads
          /\ pinnedCharts' = pinnedCharts
          /\ \A i \in 1..Len(threads') :
               /\ threads'[i].pinned \in BOOLEAN
               /\ DOMAIN threads'[i].charts = 1..Len(threads'[i].charts)
     /\ (Loaded /\ lastOp'.op # "load") =>
          /\ threads' # threads => storedThreads' = JsonThreads(threads')
          /\ pinnedCharts' # pinnedCharts =>
               storedPinned' = JsonCharts(pinnedCharts')
    ]_vars

\* A page was reloaded after a thread made in it was pinned to the top and
\* two charts were pinned.
C22_Witness ==
  /\ lastOp.op = "load"
  /\ Len(pinnedCharts) = 2
  /\ \E i \in 1..Len(threads) :
       /\ threads[i].pinned
       /\ threads[i].id <= MaxId
       /\ threads[i].title = Placeholder

\* C23: a storage write that fails inside a mutator stays inside it.  With
\* the quota used up, New Chat and a click on a thread return without an
\* exception and their in-memory change is made, a confirmed pin adds its
\* chart to the pinned collection in memory, and a run whose two jobs
\* succeeded ends with its chart in the store, status 'done' and no error.
C23_WriteFailureContained ==
  [][storageFull =>
       /\ lastOp'.note # "threw"
       /\ lastOp'.op = "startNewThread" =>
            HasThread(threads', nextId) /\ activeThreadId' = nextId
       /\ (lastOp'.op = "confirmPin" /\ lastOp'.note = "new") =>
            Len(pinnedCharts') = Len(pinnedCharts) + 1
       /\ lastOp'.op = "chartFinished" =>
            /\ \E c \in AllCharts(threads') : c.id = nextId
            /\ status' = "done"
            /\ error' = ""
    ]_vars

\* C24: a renderer is live only while it belongs to the latest effect run of
\* a mounted chart view.  Hence every renderer of an effect run whose
\* teardown was requested (the spec was replaced, the view was rendered
\* again or unmounted) is finalized, also when its embed resolves after the
\* teardown; none is live after unmount; and when a replacement embed begins,
\* every earlier run has been torn down and holds no live renderer.
C24_RenderersFinalized ==
  [][LET cv == chartView' IN
     /\ \A i \in 1..Len(cv.effects) :
          /\ cv.effects[i].renderer = "live" =>
               cv.mounted /\ cv.cleanup = i /\ ~cv.effects[i].cancelled
          /\ (cv.effects[i].cancelled /\ cv.effects[i].embed = "resolved") =>
               cv.effects[i].renderer = "finalized"
          /\ (~cv.mounted \/ i < Len(cv.effects)) => cv.effects[i].cancelled
     /\ Len(cv.effects) > Len(chartView.effects) =>
          \A i \in 1..Len(chartView.effects) :
            /\ cv.effects[i].cancelled
            /\ chartView.effects[i].renderer = "live" =>
                 cv.effects[i].renderer = "finalized"
    ]_vars

\* An unmounted chart view with one renderer finalized by the cleanup and
\* one finalized by its own embed, which resolved after the cleanup.
C24_Witness ==
  /\ ~chartView.mounted
  /\ \E i, j \in 1..Len(chartView.effects) :
       /\ chartView.effects[i].viewSet
       /\ chartView.effects[i].renderer = "finalized"
       /\ ~chartView.effects[j].viewSet
       /\ chartView.effects[j].renderer = "finalized"

\* C25: the completion of a run appends to the thread collection as it is
\* at that moment.  Whatever was done to the store while the run was in
\* flight stays: every thread other than the target is in the collection
\* after the completion exactly as before it (content and relative order),
\* the target, if in the store, keeps its place and its pinned flag, and
\* keeps its title unless it was still the placeholder of an empty thread;
\* and the whole result is what is written to storage.
C25_MutationsSurviveCompletion ==
  [][\A r \in RunIds : (Resumes(r) /\ lastOp'.op = "chartFinished") =>
       LET id == runs[r].threadId IN
       /\ Others(threads', id) = Others(threads, id)
       /\ HasThread(threads, id) =>
            /\ Len(threads') = Len(threads)
            /\ FindIndex(threads', id) = FindIndex(threads, id)
            /\ ThreadOf(threads', id).pinned = ThreadOf(threads, id).pinned
            /\ (ThreadOf(threads, id).title # Placeholder
                  \/ Len(ThreadOf(threads, id).charts) > 0) =>
                 ThreadOf(threads', id).title = ThreadOf(threads, id).title
       /\ storedThreads' = JsonThreads(threads')
    ]_vars

\* A run has completed, and a thread that was made and pinned to the top
\* while the run was in flight (its id lies between the id of the run's
\* thread and the id of the run's chart) is in the store, pinned.
C25_Witness ==
  /\ lastOp.op = "chartFinished"
  /\ \E c \in AllCharts(threads) : \E i \in 1..Len(threads) :
       /\ c.threadId < threads[i].id
       /\ threads[i].id < c.id
       /\ threads[i].pinned
       /\ threads[i].charts = <<>>

\* C26: a thread whose deletion was confirmed never comes back.  An id is in
\* the store before it is deleted, so this says that the only ids that enter
\* the store are ids that have never been in it: the fresh id of New Chat,
\* and the id synthesized for a run that was submitted without an active
\* thread.  In particular the completion of a run that was submitted on an
\* active thread adds no thread.
C26_DeletedStaysDeleted ==
  [][\A id \in ThreadIds(threads') \ ThreadIds(threads) :
       \/ lastOp'.op = "startNewThread" /\ id = nextId
       \/ /\ lastOp'.op = "chartFinished"
          /\ runs[lastOp'.run].isNewThread
          /\ id = runs[lastOp'.run].threadId
    ]_vars

\* A run that is in flight and has not been cancelled.
LiveRuns == {r \in RunIds : InFlight(r) /\ ~runs[r].aborted}

\* C27: status is 'asking' or 'charting' exactly when a run that has not
\* been cancelled is in flight: 'asking' while that run is in its ask job,
\* 'charting' while it is in its chart job, and 'idle', 'done' or 'error'
\* when there is none.
C27_BusyIffLiveRun ==
  /\ status \in {"asking", "charting"} <=> LiveRuns # {}
  /\ status = "asking" <=> \E r \in LiveRuns : runs[r].pc \in AskPcs
  /\ status = "charting" <=> \E r \in LiveRuns : runs[r].pc \in ChartPcs

\* A run is in its chart job while the run it superseded has not yet seen
\* its cancellation.
C27_Witness ==
  /\ status = "charting"
  /\ \E r \in RunIds : InFlight(r) /\ runs[r].aborted
  /\ \E r \in LiveRuns : runs[r].pc \in ChartPcs

====
